---- MODULE Spec2Model ----
(***************************************************************************)
(* A model of the USB printer discovery manager                            *)
(* (plugins/USBPrinting/USBPrinterOutputDeviceManager.py) and of the       *)
(* printer output device it tracks (cura/PrinterOutputDevice.py).          *)
(*                                                                         *)
(* Two execution contexts are modelled: the discovery worker, which runs   *)
(* _updateThread (and so getSerialPortList and _addRemovePorts), and the   *)
(* owner context, which runs the handlers of the events posted to it       *)
(* (addOutputDevice, _onConnectionStateChanged) and the manager's public   *)
(* operations.  The worker's position is w_pc, the owner's is owner_pc.    *)
(* Nothing orders the two: a step is what one context does between two     *)
(* points at which the other may run and see or change what it uses.       *)
(***************************************************************************)
EXTENDS Integers, Sequences, FiniteSets, TLC

(***************************************************************************)
(* Bounds of the model.                                                    *)
(***************************************************************************)
\* The number of devices the manager constructs in one behaviour.
MaxDevices == 2

\* The serial ports the operating system may report.
Ports == {"p1", "p2"}

DeviceIds == 1..MaxDevices

(***************************************************************************)
(* ConnectionState (cura/PrinterOutputDevice.py), an IntEnum.              *)
(***************************************************************************)
closed == 0
connecting == 1
connected == 2
busy == 3
error == 4

ConnectionState == {closed, connecting, connected, busy, error}

\* The states a tracked device reports of its own accord; "connecting" and
\* "closed" are reported by connect() and close().
ReportedStates == {connected, busy}

VARIABLES
    \* -- USBPrinterOutputDeviceManager --
    serial_port_list,    \* _serial_port_list: the ports of the latest scan
    usb_output_devices,  \* _usb_output_devices: port -> device (a dict)
    check_updates,       \* _check_updates: the discovery loop's flag
    firmware_view,       \* _firmware_view: "none", "shown" or "closed"
    usb_output_devices_model,
                         \* _usb_output_devices_model: the items of the list
                         \* model connectedPrinterList built last
    \* -- what _getDefaultFirmwareName reads from the application --
    active_machine,      \* the active machine instance's definition id and
                         \* machine_heated_bed setting, and platform.system()
    \* -- the devices constructed so far (PrinterOutputDevice objects) --
    device,              \* device id -> the fields of the object; alive
                         \* tells that the object exists
    num_devices,         \* how many devices have been constructed
    \* -- the discovery worker (_update_thread) --
    w_pc,                \* its position
    result,              \* _updateThread's result / serial_ports
    devices_to_remove,   \* _addRemovePorts' devices_to_remove
    w_i,                 \* how far the worker's "for" over a list has got
                         \* (serial_ports, then devices_to_remove)
    iter_seen,           \* keys the iteration over the dict has yielded
    iter_used,           \* the dict's size when the iterator was created
    w_port,              \* _addRemovePorts' local "port": the key the
                         \* iteration yielded last, "" when it is unbound
    w_device,            \* _addRemovePorts' local "device": the device the
                         \* iteration yielded last, 0 when it is unbound
    \* -- the owner context --
    owner_pc,            \* "idle", or where it is inside an operation
    serial_port,         \* the operation's serial_port / printer_connection
    o_iter_used,         \* the dict's size when the owner's iterator was created
    o_iter_seen,         \* keys the owner's iteration over the dict has yielded
    o_progress,          \* progress' local "progress"
    o_device,            \* the device a call in progress holds: progress'
                         \* local "device", setConnectionState's "self";
                         \* 0 when there is none
    queue,               \* events posted to the owner context, in order
    output_devices,      \* the global output device registry: id -> device
    \* -- observation --
    effects,             \* what the latest step did that is visible outside
    vanished,            \* during a cycle: the ports of the previous scan
                         \* that the cycle's scan lacks
    stale,               \* during a cycle: the devices tracked, when it began,
                         \* under a port outside _serial_port_list
    overlapped           \* a cycle has begun while a hand-off of an earlier
                         \* one was not yet processed

vars == <<serial_port_list, usb_output_devices, check_updates, firmware_view,
          device, num_devices, w_pc, result, devices_to_remove, w_i, iter_seen,
          iter_used, w_port, w_device, owner_pc, serial_port, o_iter_used,
          o_iter_seen, o_progress, o_device, queue, output_devices, effects,
          vanished, stale, overlapped, active_machine,
          usb_output_devices_model>>

(***************************************************************************)
(* Helpers for sequences and dicts.                                        *)
(***************************************************************************)
Range(s) == {s[i] : i \in DOMAIN s}

EmptyDict == [k \in {} |-> 0]

DictPut(d, k, v) == [x \in (DOMAIN d) \cup {k} |-> IF x = k THEN v ELSE d[x]]

DictDel(d, k) == [x \in (DOMAIN d) \ {k} |-> d[x]]

\* Lists of distinct ports: what one enumeration of the serial ports returns.
PortLists ==
    {s \in UNION {[1..n -> Ports] : n \in 0..Cardinality(Ports)} :
        \A i, j \in DOMAIN s : i # j => s[i] # s[j]}

\* _num_extruders
NumExtruders == 1

\* [0] * self._num_extruders
Zeros == [i \in 1..NumExtruders |-> 0]

\* No device object: the value of device[d] before d is constructed.
NoDevice ==
    [id |-> "", alive |-> FALSE, connection_state |-> closed, progress |-> 0,
     head_x |-> 0, head_y |-> 0, head_z |-> 0,
     hotend_temperatures |-> Zeros, target_hotend_temperatures |-> Zeros]

\* PrinterOutputDevice.__init__: a new device is closed, with progress 0 and
\* its head at the origin.
NewDevice(port) ==
    [id |-> port, alive |-> TRUE, connection_state |-> closed, progress |-> 0,
     head_x |-> 0, head_y |-> 0, head_z |-> 0,
     hotend_temperatures |-> Zeros, target_hotend_temperatures |-> Zeros]

(***************************************************************************)
(* The events posted to the owner context.                                 *)
(***************************************************************************)
\* addUSBOutputDeviceSignal.emit(serial_port), emitted by the worker.
AddEvent(port) == <<"add", port>>

\* connectionStateChanged.emit(id), emitted outside the owner context.
StateEvent(port) == <<"state", port>>

PendingAdds == {i \in DOMAIN queue : queue[i][1] = "add"}

\* Every hand-off the worker has made so far has been processed.
HandOffsProcessed ==
    PendingAdds = {} /\ owner_pc \notin {"connecting", "adding"}

(***************************************************************************)
(* The global output device registry (getOutputDeviceManager()): devices   *)
(* are published under their id.                                           *)
(***************************************************************************)
\* addOutputDevice(device): a device whose id is already published is ignored.
RegistryAdd(reg, port, d) ==
    IF port \in DOMAIN reg THEN reg ELSE DictPut(reg, port, d)

\* removeOutputDevice(id)
RegistryRemove(reg, port) == DictDel(reg, port)

(***************************************************************************)
(* _onConnectionStateChanged(serial_port), run with the devices devs and   *)
(* the registry reg: the registry it leaves and the registry calls it      *)
(* makes.  A port that is not a key of _usb_output_devices is a KeyError,  *)
(* which the handler swallows.                                             *)
(***************************************************************************)
IsConnected(state) == state = connected

OnConnectionStateChanged(devs, reg, port) ==
    IF port \notin DOMAIN usb_output_devices
    THEN [reg |-> reg, fx |-> <<>>]
    ELSE LET d == usb_output_devices[port] IN
         IF IsConnected(devs[d].connection_state)
         THEN [reg |-> RegistryAdd(reg, port, d),
               fx  |-> << <<"addOutputDevice", d>> >>]
         ELSE [reg |-> RegistryRemove(reg, port),
               fx  |-> << <<"removeOutputDevice", port>> >>]

\* PrinterOutputDevice.setConnectionState: stores the state unconditionally.
WithConnectionState(devs, d, state) ==
    [devs EXCEPT ![d].connection_state = state]

\* USBPrinterOutputDevice.connect(): the transport is opened within the call,
\* in the caller's context.  The states the device reports before connect()
\* returns: "connecting" and, when the handshake succeeds, "connected".
ConnectReports(handshake) ==
    IF handshake THEN <<connecting, connected>> ELSE <<connecting>>

\* USBPrinterOutputDevice.close(): the device is left closed (and reports it).
Close(devs, d) == WithConnectionState(devs, d, closed)

(***************************************************************************)
(* Initial state: the manager after __init__.  Nothing is tracked, the     *)
(* worker thread exists and is not started.                                *)
(***************************************************************************)
ManagerInit ==
    /\ serial_port_list = <<>>
    /\ usb_output_devices = EmptyDict
    /\ check_updates = TRUE
    /\ firmware_view = "none"
    /\ usb_output_devices_model = <<>>
    /\ device = [d \in DeviceIds |-> NoDevice]
    /\ num_devices = 0
    /\ w_pc = "new"
    /\ result = <<>>
    /\ devices_to_remove = <<>>
    /\ w_i = 0
    /\ iter_seen = {}
    /\ iter_used = 0
    /\ w_port = ""
    /\ w_device = 0
    /\ owner_pc = "idle"
    /\ serial_port = ""
    /\ o_iter_used = 0
    /\ o_iter_seen = {}
    /\ o_progress = 0
    /\ o_device = 0
    /\ queue = <<>>
    /\ output_devices = EmptyDict
    /\ effects = <<>>
    /\ vanished = {}
    /\ stale = {}
    /\ overlapped = FALSE

\* The machine that is active unless a specification says otherwise.
DefaultMachine ==
    [machine_type |-> "ultimaker_original", heated_bed |-> TRUE,
     platform |-> "Linux"]

Init == ManagerInit /\ active_machine = DefaultMachine

managerVars == <<serial_port_list, usb_output_devices, check_updates, firmware_view>>
\* What only _getDefaultFirmwareName reads and only connectedPrinterList writes.
appVars == <<active_machine, usb_output_devices_model>>
deviceVars == <<device, num_devices>>
workerVars == <<w_pc, result, devices_to_remove, w_i, iter_seen, iter_used,
                w_port, w_device>>
ownerLocals == <<o_iter_used, o_iter_seen, o_progress, o_device>>
ownerVars == <<owner_pc, serial_port, ownerLocals>>
ghostVars == <<vanished, stale, overlapped>>

(***************************************************************************)
(* The discovery worker.                                                   *)
(***************************************************************************)
\* "if serial_port not in self._serial_port_list": the ports of serial_ports
\* that _addRemovePorts hands off are those not in _serial_port_list, in the
\* order of serial_ports.  (The variant hands off every port of the scan.)
IsNewPort_Always(port, known) == TRUE

IsNewPort(port, known) == port \notin Range(known)

NewPorts(serial_ports, known) ==
    SelectSeq(serial_ports, LAMBDA p : IsNewPort(p, known))

\* A removal test that takes an empty scan for "no information".
IsGone_IgnoringEmptyScan(port, known) ==
    known # <<>> /\ port \notin Range(known)

\* The removal pass closes and removes a device whose port is not in
\* _serial_port_list.
IsGone(port, known) == port \notin Range(known)

\* "while self._check_updates".  (The variant loops whatever the flag is.)
LoopTest_Forever(flag) == TRUE

LoopTest(flag) == flag

(***************************************************************************)
(* getSerialPortList(only_list_usb = True).  entries are the USB serial    *)
(* ports the system has, in the order it lists them.  On Windows the       *)
(* registry values are read one by one inside a try statement, and the     *)
(* loop ends with the exception of the read at index fault_at: the one     *)
(* that reports the end of the values (fault_at = Len(entries)) or a fault *)
(* of an earlier read, or of opening the key (fault_at = 0).  Elsewhere    *)
(* the list is what glob.glob returns, which reports no fault.             *)
(***************************************************************************)
FaultPoints(platform, entries) ==
    IF platform = "Windows" THEN 0..Len(entries) ELSE {Len(entries)}

GetSerialPortList(platform, entries, fault_at) ==
    IF platform = "Windows"
    THEN SubSeq(entries, 1, fault_at)
    ELSE entries

\* _updateThread, "while self._check_updates": the loop is left when the
\* flag is cleared; otherwise the worker goes on to the enumeration, whatever
\* becomes of the flag after the test.
UpdateThreadLoop ==
    /\ w_pc = "check"
    /\ IF LoopTest(check_updates)
       THEN /\ w_pc' = "getSerialPortList"
            /\ stale' = {usb_output_devices[p] :
                           p \in {q \in DOMAIN usb_output_devices :
                                    q \notin Range(serial_port_list)}}
            /\ overlapped' = (overlapped \/ ~HandOffsProcessed)
       ELSE /\ w_pc' = "done"
            /\ UNCHANGED <<stale, overlapped>>
    /\ effects' = <<>>
    /\ UNCHANGED <<managerVars, deviceVars, result, devices_to_remove, w_i,
                   iter_seen, iter_used, w_port, w_device, ownerVars, queue,
                   output_devices, vanished>>
    /\ UNCHANGED appVars

\* _updateThread, "result = self.getSerialPortList(only_list_usb = True)".
\* The system may have any list of distinct ports whose new ports the model
\* still has devices for.
UpdateThreadScan ==
    /\ w_pc = "getSerialPortList"
    /\ \E entries \in PortLists :
         \E fault_at \in FaultPoints(active_machine.platform, entries) :
           LET ports == GetSerialPortList(active_machine.platform, entries,
                                          fault_at)
           IN /\ Len(NewPorts(ports, serial_port_list))
                   + Cardinality(PendingAdds) + num_devices <= MaxDevices
              /\ result' = ports
              /\ effects' = << <<"getSerialPortList", entries, fault_at>> >>
    /\ w_pc' = "addRemovePorts"
    /\ w_i' = 0
    /\ UNCHANGED <<managerVars, deviceVars, devices_to_remove, iter_seen,
                   iter_used, w_port, w_device, ownerVars, queue,
                   output_devices, ghostVars>>
    /\ UNCHANGED appVars

\* _addRemovePorts, "for serial_port in list(serial_ports)": one port a
\* step, handed off when it is not in _serial_port_list; when the list is
\* exhausted, "self._serial_port_list = list(serial_ports)".
AddRemovePorts_HandOff ==
    /\ w_pc = "addRemovePorts"
    /\ IF w_i < Len(result)
       THEN /\ queue' = IF IsNewPort(result[w_i + 1], serial_port_list)
                        THEN Append(queue, AddEvent(result[w_i + 1]))
                        ELSE queue
            /\ w_i' = w_i + 1
            /\ w_pc' = w_pc
            /\ UNCHANGED <<serial_port_list, vanished>>
       ELSE /\ serial_port_list' = result
            /\ vanished' = Range(serial_port_list) \ Range(result)
            /\ w_i' = 0
            /\ w_pc' = "removal"
            /\ UNCHANGED queue
    /\ effects' = <<>>
    /\ UNCHANGED <<usb_output_devices, check_updates, firmware_view, deviceVars,
                   result, devices_to_remove, iter_seen, iter_used, w_port,
                   w_device, ownerVars, output_devices, stale, overlapped>>
    /\ UNCHANGED appVars

\* _addRemovePorts, "devices_to_remove = []" and the creation of the iterator
\* of "for port, device in self._usb_output_devices.items()".
AddRemovePorts_BeginRemoval ==
    /\ w_pc = "removal"
    /\ devices_to_remove' = <<>>
    /\ iter_seen' = {}
    /\ iter_used' = Cardinality(DOMAIN usb_output_devices)
    /\ w_pc' = "iterate"
    /\ effects' = <<>>
    /\ UNCHANGED <<managerVars, deviceVars, result, w_i, w_port, w_device,
                   ownerVars, queue, output_devices, ghostVars>>
    /\ UNCHANGED appVars

\* _addRemovePorts, the removal pass: one step of the "for" over the dict
\* (line 183).  The iterator raises RuntimeError when the dict's size is not
\* what it was when the iterator was created; nothing catches it, so the
\* worker thread ends.  Otherwise the loop ends or the next key and the
\* device stored under it are bound to "port" and "device".
AddRemovePorts_Iterate ==
    /\ w_pc = "iterate"
    /\ IF Cardinality(DOMAIN usb_output_devices) # iter_used
       THEN /\ w_pc' = "fault"
            /\ w_port' = ""
            /\ w_device' = 0
            /\ effects' = << <<"raise", "RuntimeError">> >>
            /\ UNCHANGED iter_seen
       ELSE IF DOMAIN usb_output_devices \subseteq iter_seen
       THEN /\ w_pc' = "delete"
            /\ iter_seen' = {}
            /\ effects' = <<>>
            /\ UNCHANGED <<w_port, w_device>>
       ELSE \E port \in (DOMAIN usb_output_devices) \ iter_seen :
              /\ iter_seen' = iter_seen \cup {port}
              /\ w_port' = port
              /\ w_device' = usb_output_devices[port]
              /\ w_pc' = "close"
              /\ effects' = <<>>
    /\ UNCHANGED <<managerVars, deviceVars, result, devices_to_remove, w_i,
                   iter_used, ownerVars, queue, output_devices, ghostVars>>
    /\ UNCHANGED appVars

\* _addRemovePorts, the body of the removal pass (lines 184-186), run on the
\* device the iterator yielded, whatever the owner context has done to it or
\* to the dict since: when the port is not in _serial_port_list,
\* device.close() leaves the device closed, its notification is emitted in
\* the worker and so is posted to the owner context, and the port is
\* appended to devices_to_remove.
AddRemovePorts_Close ==
    /\ w_pc = "close"
    /\ IF IsGone(w_port, serial_port_list)
       THEN /\ device' = Close(device, w_device)
            /\ queue' = Append(queue, StateEvent(device[w_device].id))
            /\ devices_to_remove' = Append(devices_to_remove, w_port)
       ELSE UNCHANGED <<device, queue, devices_to_remove>>
    /\ w_pc' = "iterate"
    /\ effects' = <<>>
    /\ UNCHANGED <<managerVars, num_devices, result, w_i, iter_seen, iter_used,
                   w_port, w_device, ownerVars, output_devices, ghostVars>>
    /\ UNCHANGED appVars

\* _addRemovePorts, "for port in devices_to_remove: del ...", one deletion
\* a step; the function returns when the list is exhausted, and its locals
\* "port" and "device" go with it (as they do when a fault ends the thread).
AddRemovePorts_Delete ==
    /\ w_pc = "delete"
    /\ IF w_i < Len(devices_to_remove)
       THEN LET port == devices_to_remove[w_i + 1] IN
            IF port \in DOMAIN usb_output_devices
            THEN /\ usb_output_devices' = DictDel(usb_output_devices, port)
                 /\ w_i' = w_i + 1
                 /\ w_pc' = w_pc
                 /\ effects' = <<>>
                 /\ UNCHANGED <<w_port, w_device>>
            ELSE /\ w_pc' = "fault"
                 /\ w_port' = ""
                 /\ w_device' = 0
                 /\ effects' = << <<"raise", "KeyError">> >>
                 /\ UNCHANGED <<usb_output_devices, w_i>>
       ELSE /\ w_pc' = "sleep"
            /\ w_port' = ""
            /\ w_device' = 0
            /\ effects' = <<>>
            /\ UNCHANGED <<usb_output_devices, w_i>>
    /\ UNCHANGED <<serial_port_list, check_updates, firmware_view, deviceVars,
                   result, devices_to_remove, iter_seen, iter_used, ownerVars,
                   queue, output_devices, ghostVars>>
    /\ UNCHANGED appVars

\* _updateThread: time.sleep(5), then back to the loop test.
UpdateThreadSleep ==
    /\ w_pc = "sleep"
    /\ w_pc' = "check"
    /\ devices_to_remove' = <<>>
    /\ w_i' = 0
    /\ vanished' = {}
    /\ stale' = {}
    /\ effects' = <<>>
    /\ UNCHANGED <<managerVars, deviceVars, result, iter_seen, iter_used,
                   w_port, w_device, ownerVars, queue, output_devices,
                   overlapped>>
    /\ UNCHANGED appVars

(***************************************************************************)
(* The owner context.                                                      *)
(***************************************************************************)
\* start()
Start ==
    /\ owner_pc = "idle"
    /\ check_updates' = TRUE
    /\ IF w_pc = "new"
       THEN /\ w_pc' = "check"
            /\ effects' = <<>>
       ELSE /\ w_pc' = w_pc
            /\ effects' = << <<"raise", "RuntimeError">> >>
    /\ UNCHANGED <<serial_port_list, usb_output_devices, firmware_view,
                   deviceVars, result, devices_to_remove, w_i, iter_seen,
                   iter_used, w_port, w_device, ownerVars, queue,
                   output_devices, ghostVars>>
    /\ UNCHANGED appVars

\* addOutputDevice(serial_port), up to the first report of device.connect():
\* the device is constructed, subscribed to, and connect() is called, which
\* reports "connecting".  The notification is emitted in the owner context
\* and so runs _onConnectionStateChanged at once.  Nothing but this call
\* refers to the new device, so its construction, the store of its state and
\* the handler's reads are one step.
AddOutputDevice_Connect ==
    /\ owner_pc = "idle"
    /\ queue # <<>>
    /\ Head(queue)[1] = "add"
    /\ num_devices < MaxDevices
    /\ LET port == Head(queue)[2]
           d == num_devices + 1
           devs == WithConnectionState([device EXCEPT ![d] = NewDevice(port)],
                                       d, ConnectReports(FALSE)[1])
           h == OnConnectionStateChanged(devs, output_devices, port)
       IN /\ device' = devs
          /\ output_devices' = h.reg
          /\ effects' = h.fx
          /\ serial_port' = port
    /\ num_devices' = num_devices + 1
    /\ queue' = Tail(queue)
    /\ owner_pc' = "connecting"
    /\ UNCHANGED <<managerVars, workerVars, ownerLocals, ghostVars>>
    /\ UNCHANGED appVars

\* addOutputDevice, the rest of device.connect(): when the handshake
\* succeeds within the call the device reports "connected", and that
\* notification runs _onConnectionStateChanged at once; then connect()
\* returns.  The worker may have run since the first report.
AddOutputDevice_Connected ==
    /\ owner_pc = "connecting"
    /\ \E handshake \in BOOLEAN :
         LET reports == ConnectReports(handshake)
             d == num_devices
         IN IF Len(reports) > 1
            THEN LET devs == WithConnectionState(device, d, reports[2])
                     h == OnConnectionStateChanged(devs, output_devices,
                                                   serial_port)
                 IN /\ device' = devs
                    /\ output_devices' = h.reg
                    /\ effects' = h.fx
            ELSE /\ effects' = <<>>
                 /\ UNCHANGED <<device, output_devices>>
    /\ owner_pc' = "adding"
    /\ UNCHANGED <<managerVars, num_devices, workerVars, serial_port,
                   ownerLocals, queue, ghostVars>>
    /\ UNCHANGED appVars

\* addOutputDevice, the rest: the device is stored under its port.
AddOutputDevice_Store ==
    /\ owner_pc = "adding"
    /\ usb_output_devices' = DictPut(usb_output_devices, serial_port, num_devices)
    /\ owner_pc' = "idle"
    /\ serial_port' = ""
    /\ effects' = <<>>
    /\ UNCHANGED <<serial_port_list, check_updates, firmware_view, deviceVars,
                   workerVars, ownerLocals, queue, output_devices, ghostVars>>
    /\ UNCHANGED appVars

\* A connection-state notification that was posted to the owner context is
\* delivered: _onConnectionStateChanged(serial_port).
OnConnectionStateChanged_Queued ==
    /\ owner_pc = "idle"
    /\ queue # <<>>
    /\ Head(queue)[1] = "state"
    /\ LET h == OnConnectionStateChanged(device, output_devices, Head(queue)[2])
       IN /\ output_devices' = h.reg
          /\ effects' = h.fx
    /\ queue' = Tail(queue)
    /\ UNCHANGED <<managerVars, deviceVars, workerVars, ownerVars, ghostVars>>
    /\ UNCHANGED appVars

\* device.setConnectionState(state) in the owner context, for a device that
\* exists, tracked or not, whatever its state:
\* "self._connection_state = connection_state".  The worker may run before
\* the notification is emitted.
SetConnectionState_Store(d, state) ==
    /\ owner_pc = "idle"
    /\ d \in 1..num_devices
    /\ device[d].alive
    /\ device' = WithConnectionState(device, d, state)
    /\ o_device' = d
    /\ owner_pc' = "setConnectionState"
    /\ effects' = << <<"_connection_state", d, device[d].connection_state,
                       state>> >>
    /\ UNCHANGED <<managerVars, num_devices, workerVars, serial_port,
                   o_iter_used, o_iter_seen, o_progress, queue,
                   output_devices, ghostVars>>
    /\ UNCHANGED appVars

\* setConnectionState, "self.connectionStateChanged.emit(self._id)": the
\* notification runs _onConnectionStateChanged at once, which reads the
\* state the tracked device has by then.
SetConnectionState_Emit ==
    /\ owner_pc = "setConnectionState"
    /\ LET h == OnConnectionStateChanged(device, output_devices,
                                         device[o_device].id)
       IN /\ output_devices' = h.reg
          /\ effects' = << <<"connectionStateChanged", o_device>> >> \o h.fx
    /\ o_device' = 0
    /\ owner_pc' = "idle"
    /\ UNCHANGED <<managerVars, deviceVars, workerVars, serial_port,
                   o_iter_used, o_iter_seen, o_progress, queue, ghostVars>>
    /\ UNCHANGED appVars

\* Nothing refers to device d any more: it was replaced in or deleted from
\* _usb_output_devices, it is not in the registry, it is no item of
\* _usb_output_devices_model and no call is holding it in a local.
Unreferenced(d) ==
    /\ d \in 1..num_devices
    /\ device[d].alive
    /\ d \notin Range(usb_output_devices)
    /\ d \notin Range(output_devices)
    /\ \A i \in DOMAIN usb_output_devices_model :
          usb_output_devices_model[i].printer # d
    /\ ~(owner_pc \in {"connecting", "adding"} /\ d = num_devices)
    /\ d # w_device
    /\ d # o_device

\* PrinterOutputDevice.__del__: an unreferenced device is destroyed, in the
\* thread that dropped the last reference to it or in the one the collector
\* runs in, the owner context or another thread, and __del__ calls close().  The notification of close() runs
\* _onConnectionStateChanged at once in the owner context, and is posted to
\* it from another thread.
Del(d, in_owner) ==
    /\ Unreferenced(d)
    /\ LET devs == [Close(device, d) EXCEPT ![d].alive = FALSE]
       IN /\ device' = devs
          /\ IF in_owner
             THEN /\ owner_pc # "joining"
                  /\ output_devices' =
                       OnConnectionStateChanged(devs, output_devices,
                                                device[d].id).reg
                  /\ effects' = << <<"__del__", d>> >>
                        \o OnConnectionStateChanged(devs, output_devices,
                                                    device[d].id).fx
                  /\ UNCHANGED queue
             ELSE /\ queue' = Append(queue, StateEvent(device[d].id))
                  /\ effects' = << <<"__del__", d>> >>
                  /\ UNCHANGED output_devices
    /\ UNCHANGED <<managerVars, num_devices, workerVars, ownerVars, ghostVars>>
    /\ UNCHANGED appVars

\* connectedPrinterList, up to the creation of the iterator of
\* "for connection in self._usb_output_devices": a new, empty list model
\* replaces the one built before.
ConnectedPrinterList_Begin ==
    /\ owner_pc = "idle"
    /\ usb_output_devices_model' = <<>>
    /\ o_iter_used' = Cardinality(DOMAIN usb_output_devices)
    /\ o_iter_seen' = {}
    /\ owner_pc' = "connectedPrinterList"
    /\ effects' = << <<"connectedPrinterList">> >>
    /\ UNCHANGED <<managerVars, deviceVars, workerVars, serial_port, o_progress,
                   o_device, queue, output_devices, ghostVars>>
    /\ UNCHANGED active_machine

\* One step of the "for": RuntimeError when the dict's size has changed, the
\* end of the loop and the return of the model, or the next key.
ConnectedPrinterList_Next ==
    /\ owner_pc = "connectedPrinterList"
    /\ IF Cardinality(DOMAIN usb_output_devices) # o_iter_used
       THEN /\ owner_pc' = "idle"
            /\ serial_port' = ""
            /\ o_iter_used' = 0
            /\ o_iter_seen' = {}
            /\ effects' = << <<"connectedPrinterList">>,
                             <<"raise", "RuntimeError">> >>
       ELSE IF DOMAIN usb_output_devices \subseteq o_iter_seen
       THEN /\ owner_pc' = "idle"
            /\ serial_port' = ""
            /\ o_iter_used' = 0
            /\ o_iter_seen' = {}
            /\ effects' = << <<"connectedPrinterList">>,
                             <<"return", usb_output_devices_model>> >>
       ELSE \E port \in (DOMAIN usb_output_devices) \ o_iter_seen :
              /\ o_iter_seen' = o_iter_seen \cup {port}
              /\ serial_port' = port
              /\ owner_pc' = "connectedPrinterList_if"
              /\ effects' = <<>>
              /\ UNCHANGED o_iter_used
    /\ UNCHANGED <<managerVars, deviceVars, workerVars, o_progress, o_device,
                   queue, output_devices, ghostVars>>
    /\ UNCHANGED appVars

\* The body of the "for": the device is looked up (KeyError when the worker
\* has deleted the key, which nothing catches) and, when it is connected,
\* appended to the model under the key.
ConnectedPrinterList_If ==
    /\ owner_pc = "connectedPrinterList_if"
    /\ IF serial_port \notin DOMAIN usb_output_devices
       THEN /\ owner_pc' = "idle"
            /\ serial_port' = ""
            /\ o_iter_used' = 0
            /\ o_iter_seen' = {}
            /\ effects' = << <<"connectedPrinterList">>,
                             <<"raise", "KeyError">> >>
            /\ UNCHANGED usb_output_devices_model
       ELSE LET d == usb_output_devices[serial_port] IN
            /\ usb_output_devices_model' =
                  IF IsConnected(device[d].connection_state)
                  THEN Append(usb_output_devices_model,
                              [name |-> serial_port, printer |-> d])
                  ELSE usb_output_devices_model
            /\ owner_pc' = "connectedPrinterList"
            /\ effects' = <<>>
            /\ UNCHANGED <<serial_port, o_iter_used, o_iter_seen>>
    /\ UNCHANGED <<managerVars, deviceVars, workerVars, o_progress, o_device,
                   queue, output_devices, ghostVars>>
    /\ UNCHANGED active_machine

\* stop(): clears the flag and joins the worker.  Joining a thread that was
\* never started raises RuntimeError, which stop() swallows: with the worker
\* at pc, stop() returns at once or waits in join().  (The variant has no
\* "except RuntimeError".)
StopTry_NoExcept(pc) ==
    IF pc = "new" THEN <<"raise", "RuntimeError">> ELSE <<"stop", "join">>

StopTry(pc) ==
    IF pc = "new" THEN <<"stop", "return">> ELSE <<"stop", "join">>

Stop ==
    /\ owner_pc = "idle"
    /\ check_updates' = FALSE
    /\ owner_pc' = IF StopTry(w_pc) = <<"stop", "join">> THEN "joining"
                                                         ELSE "idle"
    /\ effects' = <<StopTry(w_pc)>>
    /\ UNCHANGED <<serial_port_list, usb_output_devices, firmware_view,
                   deviceVars, workerVars, serial_port, ownerLocals, queue,
                   output_devices, ghostVars>>
    /\ UNCHANGED appVars

\* stop(): _update_thread.join() returns once the worker thread has ended.
StopJoined ==
    /\ owner_pc = "joining"
    /\ w_pc \in {"done", "fault"}
    /\ owner_pc' = "idle"
    /\ effects' = << <<"stop", "return">> >>
    /\ UNCHANGED <<managerVars, deviceVars, workerVars, serial_port,
                   ownerLocals, queue, output_devices, ghostVars>>
    /\ UNCHANGED appVars

(***************************************************************************)
(* progress: the mean of the tracked devices' progress.  The quotient      *)
(* sum / n is kept as the pair <<sum, n>>.  The worker may delete keys of  *)
(* the dict while the owner iterates over it.                              *)
(***************************************************************************)
Divide(sum, n) ==
    IF n = 0 THEN <<"raise", "ZeroDivisionError">> ELSE <<"return", sum, n>>

\* "progress = 0" and the creation of the iterator of the "for".
ReadProgress_Begin ==
    /\ owner_pc = "idle"
    /\ owner_pc' = "progress"
    /\ o_progress' = 0
    /\ o_iter_used' = Cardinality(DOMAIN usb_output_devices)
    /\ o_iter_seen' = {}
    /\ o_device' = 0
    /\ effects' = <<>>
    /\ UNCHANGED <<managerVars, deviceVars, workerVars, serial_port, queue,
                   output_devices, ghostVars>>
    /\ UNCHANGED appVars

\* One step of the "for": the iterator raises RuntimeError when the dict's
\* size has changed, ends the loop, or yields a device whose progress is
\* added.
ReadProgress_Iterate ==
    /\ owner_pc = "progress"
    /\ IF Cardinality(DOMAIN usb_output_devices) # o_iter_used
       THEN /\ owner_pc' = "idle"
            /\ effects' = << <<"progress">>, <<"raise", "RuntimeError">> >>
            /\ o_progress' = 0
            /\ o_iter_used' = 0
            /\ o_iter_seen' = {}
            /\ o_device' = 0
       ELSE IF DOMAIN usb_output_devices \subseteq o_iter_seen
       THEN /\ owner_pc' = "progress_return"
            /\ effects' = <<>>
            /\ o_iter_used' = 0
            /\ o_iter_seen' = {}
            /\ UNCHANGED <<o_progress, o_device>>
       ELSE \E port \in (DOMAIN usb_output_devices) \ o_iter_seen :
              /\ o_iter_seen' = o_iter_seen \cup {port}
              /\ o_device' = usb_output_devices[port]
              /\ o_progress' = o_progress
                                 + device[usb_output_devices[port]].progress
              /\ effects' = <<>>
              /\ UNCHANGED <<owner_pc, o_iter_used>>
    /\ UNCHANGED <<managerVars, deviceVars, workerVars, serial_port, queue,
                   output_devices, ghostVars>>
    /\ UNCHANGED appVars

\* "return progress / len(self._usb_output_devices)"
ReadProgress_Return ==
    /\ owner_pc = "progress_return"
    /\ owner_pc' = "idle"
    /\ effects' = << <<"progress">>,
                     Divide(o_progress, Cardinality(DOMAIN usb_output_devices)) >>
    /\ o_progress' = 0
    /\ o_device' = 0
    /\ UNCHANGED <<managerVars, deviceVars, workerVars, serial_port,
                   o_iter_used, o_iter_seen, queue, output_devices, ghostVars>>
    /\ UNCHANGED appVars

(***************************************************************************)
(* Firmware resolution: _getDefaultFirmwareName.  A file name is a         *)
(* sequence of pieces; the piece "{baudrate}" is the placeholder that      *)
(* str.format replaces by the baud rate.                                   *)
(***************************************************************************)
BaudrateLinux == 115200
BaudrateOther == 250000

Platforms == {"Linux", "Windows", "Darwin"}

Baudrate(platform) ==
    IF platform = "Linux" THEN BaudrateLinux ELSE BaudrateOther

machine_without_extras ==
    [bq_witbox                |-> <<"MarlinWitbox.hex">>,
     bq_hephestos_2           |-> <<"MarlinHephestos2.hex">>,
     ultimaker_original       |-> <<"MarlinUltimaker-", "{baudrate}", ".hex">>,
     ultimaker_original_plus  |-> <<"MarlinUltimaker-UMOP-", "{baudrate}", ".hex">>,
     ultimaker2               |-> <<"MarlinUltimaker2.hex">>,
     ultimaker2_go            |-> <<"MarlinUltimaker2go.hex">>,
     ultimaker2plus           |-> <<"MarlinUltimaker2plus.hex">>,
     ultimaker2_extended      |-> <<"MarlinUltimaker2extended.hex">>,
     ultimaker2_extended_plus |-> <<"MarlinUltimaker2extended-plus.hex">>]

machine_with_heated_bed ==
    [ultimaker_original |-> <<"MarlinUltimaker-HBK-", "{baudrate}", ".hex">>]

\* The machine ids an active machine instance may have: those of the tables
\* and one that has no firmware.
MachineTypes == (DOMAIN machine_without_extras) \cup {"prusa_i3"}

\* hex_file.format(baudrate = baudrate): the pieces joined, with the
\* placeholder replaced by the baud rate in decimal.
RECURSIVE Join(_)
Join(pieces) ==
    IF pieces = <<>> THEN "" ELSE Head(pieces) \o Join(Tail(pieces))

Format(hex_file, baudrate) ==
    Join([i \in DOMAIN hex_file |->
            IF hex_file[i] = "{baudrate}" THEN ToString(baudrate)
                                          ELSE hex_file[i]])

\* The hex_file chosen, <<>> standing for None.  (The variant takes the
\* heated-bed image whatever the machine_heated_bed setting is.)
UsesHeatedBed_IgnoringSetting(machine_type, heated_bed) ==
    machine_type \in DOMAIN machine_with_heated_bed

UsesHeatedBed(machine_type, heated_bed) ==
    machine_type \in DOMAIN machine_with_heated_bed /\ heated_bed

HexFile(machine_type, heated_bed) ==
    IF machine_type \in DOMAIN machine_without_extras
    THEN IF UsesHeatedBed(machine_type, heated_bed)
         THEN machine_with_heated_bed[machine_type]
         ELSE machine_without_extras[machine_type]
    ELSE <<>>

GetDefaultFirmwareName(machine_type, heated_bed, platform) ==
    LET hex_file == HexFile(machine_type, heated_bed) IN
    IF hex_file # <<>>
    THEN <<"return", Format(hex_file, Baudrate(platform))>>
    ELSE <<"raise", "FileNotFoundError">>

\* The active machine profiles the manager's operations are run with: the
\* machine id, its machine_heated_bed setting and the host's platform.
ActiveProfiles ==
    {DefaultMachine,
     [machine_type |-> "prusa_i3", heated_bed |-> FALSE, platform |-> "Linux"]}

\* Every profile: machine id, heated-bed setting and platform.
MachineProfiles ==
    [machine_type : MachineTypes, heated_bed : BOOLEAN, platform : Platforms]

\* A call of _getDefaultFirmwareName with the active machine.
ResolveFirmware ==
    /\ effects' = << <<"_getDefaultFirmwareName">>,
                     GetDefaultFirmwareName(active_machine.machine_type,
                                            active_machine.heated_bed,
                                            active_machine.platform) >>
    /\ UNCHANGED <<serial_port_list, usb_output_devices, check_updates,
                   firmware_view, device, num_devices, w_pc, result,
                   devices_to_remove, w_i, iter_seen, iter_used, w_port,
                   w_device, ownerVars, queue, output_devices, ghostVars>>
    /\ UNCHANGED appVars

ResolveFor(profile) ==
    GetDefaultFirmwareName(profile.machine_type, profile.heated_bed,
                           profile.platform)

(***************************************************************************)
(* PrinterOutputDevice.setProgress(progress) and its callers.              *)
(***************************************************************************)
\* The number of arguments setProgress accepts besides self.
SetProgressParams == 1

\* setProgress(progress): stores and notifies only when the value differs.
\* (The variant notifies on every call.)
SetProgress_AlwaysEmits(devs, d, progress) ==
    [devs |-> [devs EXCEPT ![d].progress = progress],
     fx   |-> << <<"progressChanged", d>> >>]

SetProgress(devs, d, progress) ==
    IF devs[d].progress # progress
    THEN [devs |-> [devs EXCEPT ![d].progress = progress],
          fx   |-> << <<"progressChanged", d>> >>]
    ELSE [devs |-> devs, fx |-> <<>>]

\* A call device.setProgress(*args): a call with the wrong number of
\* arguments raises TypeError and changes nothing.
CallSetProgress(devs, d, args) ==
    IF Len(args) # SetProgressParams
    THEN [devs |-> devs, fx |-> << <<"raise", "TypeError">> >>, raised |-> TRUE]
    ELSE [devs   |-> SetProgress(devs, d, args[1]).devs,
          fx     |-> SetProgress(devs, d, args[1]).fx,
          raised |-> FALSE]

\* spawnFirmwareInterface: creates the view when there is none, and shows it.
SpawnFirmwareInterface(view) == "shown"

(***************************************************************************)
(* updateAllFirmware.  The worker may delete keys of the dict while the    *)
(* owner is inside the operation.  resolved is _getDefaultFirmwareName's   *)
(* outcome and absent holds the port when Resources.getPath finds no file. *)
(***************************************************************************)
\* Whether the argument of updateFirmware raises FileNotFoundError.
RaisesFileNotFound(resolved, absent, port) ==
    resolved[1] = "raise" \/ port \in absent

\* "if not self._usb_output_devices".  (The variant never takes the branch.)
NoPrinters_Never(devices) == FALSE

NoPrinters(devices) == DOMAIN devices = {}

\* What the owner's locals are outside an operation.
OwnerReturns ==
    /\ owner_pc' = "idle"
    /\ serial_port' = ""
    /\ o_iter_used' = 0
    /\ o_iter_seen' = {}

\* The test for no printers and, when there are some, spawnFirmwareInterface.
UpdateAllFirmware_Begin ==
    /\ owner_pc = "idle"
    /\ IF NoPrinters(usb_output_devices)
       THEN /\ effects' = << <<"updateAllFirmware">>,
                             <<"Message", "no printers">> >>
            /\ UNCHANGED <<firmware_view, owner_pc>>
       ELSE /\ firmware_view' = SpawnFirmwareInterface(firmware_view)
            /\ owner_pc' = "updateAllFirmware"
            /\ effects' = << <<"updateAllFirmware">>,
                             <<"spawnFirmwareInterface">> >>
    /\ UNCHANGED <<serial_port_list, usb_output_devices, check_updates,
                   deviceVars, workerVars, serial_port, ownerLocals, queue,
                   output_devices, ghostVars>>
    /\ UNCHANGED appVars

\* The creation of the iterator of
\* "for printer_connection in self._usb_output_devices".
UpdateAllFirmware_For ==
    /\ owner_pc = "updateAllFirmware"
    /\ owner_pc' = "updateAllFirmware_next"
    /\ o_iter_used' = Cardinality(DOMAIN usb_output_devices)
    /\ o_iter_seen' = {}
    /\ effects' = <<>>
    /\ UNCHANGED <<managerVars, deviceVars, workerVars, serial_port, o_progress,
                   o_device, queue, output_devices, ghostVars>>
    /\ UNCHANGED appVars

\* One step of the "for": RuntimeError when the dict's size has changed,
\* the end of the loop and of the operation, or the next key.
UpdateAllFirmware_Next ==
    /\ owner_pc = "updateAllFirmware_next"
    /\ IF Cardinality(DOMAIN usb_output_devices) # o_iter_used
       THEN /\ OwnerReturns
            /\ effects' = << <<"updateAllFirmware">>,
                             <<"raise", "RuntimeError">> >>
       ELSE IF DOMAIN usb_output_devices \subseteq o_iter_seen
       THEN /\ OwnerReturns
            /\ effects' = << <<"updateAllFirmware">>, <<"return">> >>
       ELSE \E port \in (DOMAIN usb_output_devices) \ o_iter_seen :
              /\ o_iter_seen' = o_iter_seen \cup {port}
              /\ serial_port' = port
              /\ owner_pc' = "updateAllFirmware_try"
              /\ effects' = <<>>
              /\ UNCHANGED o_iter_used
    /\ UNCHANGED <<managerVars, deviceVars, workerVars, o_progress, o_device,
                   queue, output_devices, ghostVars>>
    /\ UNCHANGED appVars

\* The try statement: the device is looked up (KeyError when the key is
\* gone, which nothing catches), the firmware name is resolved and the file
\* looked for, and the device's updateFirmware is called.
UpdateAllFirmware_Try ==
    /\ owner_pc = "updateAllFirmware_try"
    /\ IF serial_port \notin DOMAIN usb_output_devices
       THEN /\ OwnerReturns
            /\ effects' = << <<"updateAllFirmware">>, <<"raise", "KeyError">> >>
       ELSE \E absent \in SUBSET {serial_port} :
              LET resolved == ResolveFor(active_machine)
                  d == usb_output_devices[serial_port]
              IN IF RaisesFileNotFound(resolved, absent, serial_port)
                 THEN /\ owner_pc' = "updateAllFirmware_except"
                      /\ effects' = << <<"updateAllFirmware">>,
                                       <<"_getDefaultFirmwareName", resolved[1]>>,
                                       <<"FileNotFoundError", d>> >>
                      /\ UNCHANGED <<serial_port, o_iter_used, o_iter_seen>>
                 ELSE /\ owner_pc' = "updateAllFirmware_next"
                      /\ effects' = << <<"updateAllFirmware">>,
                                       <<"_getDefaultFirmwareName", resolved[1]>>,
                                       <<"updateFirmware", d>> >>
                      /\ UNCHANGED <<serial_port, o_iter_used, o_iter_seen>>
    /\ UNCHANGED <<managerVars, deviceVars, workerVars, o_progress, o_device,
                   queue, output_devices, ghostVars>>
    /\ UNCHANGED appVars

\* "except FileNotFoundError": the device is looked up again and
\* setProgress(100, 100) is called on it; then "continue".
UpdateAllFirmware_Except ==
    /\ owner_pc = "updateAllFirmware_except"
    /\ IF serial_port \notin DOMAIN usb_output_devices
       THEN /\ OwnerReturns
            /\ effects' = << <<"updateAllFirmware">>, <<"raise", "KeyError">> >>
            /\ UNCHANGED device
       ELSE LET d == usb_output_devices[serial_port]
                c == CallSetProgress(device, d, <<100, 100>>)
            IN /\ device' = c.devs
               /\ effects' = << <<"updateAllFirmware">>, <<"except", d>> >> \o c.fx
               /\ IF c.raised
                  THEN OwnerReturns
                  ELSE /\ owner_pc' = "updateAllFirmware_next"
                       /\ UNCHANGED <<serial_port, o_iter_used, o_iter_seen>>
    /\ UNCHANGED <<managerVars, num_devices, workerVars, o_progress, o_device,
                   queue, output_devices, ghostVars>>
    /\ UNCHANGED appVars

(***************************************************************************)
(* updateFirmwareBySerial(serial_port).                                    *)
(***************************************************************************)
\* The try statement of updateFirmwareBySerial, run with the view that
\* spawnFirmwareInterface left: the view and the value returned.  (The
\* variant leaves the view open when the firmware is missing.)
TryUpdateFirmware_LeavesViewOpen(view, raises) ==
    [view |-> view, ret |-> ~raises]

TryUpdateFirmware(view, raises) ==
    IF raises
    THEN [view |-> "closed", ret |-> FALSE]
    ELSE [view |-> view, ret |-> TRUE]

\* "if serial_port in self._usb_output_devices", and "return False" when it
\* is not.
UpdateFirmwareBySerial_Begin(port) ==
    /\ owner_pc = "idle"
    /\ IF port \in DOMAIN usb_output_devices
       THEN /\ owner_pc' = "updateFirmwareBySerial"
            /\ serial_port' = port
            /\ effects' = << <<"updateFirmwareBySerial", port>> >>
       ELSE /\ effects' = << <<"updateFirmwareBySerial", port>>,
                             <<"return", FALSE>> >>
            /\ UNCHANGED <<owner_pc, serial_port>>
    /\ UNCHANGED <<managerVars, deviceVars, workerVars, ownerLocals, queue,
                   output_devices, ghostVars>>
    /\ UNCHANGED appVars

\* The device is looked up for its getSerialPort() (KeyError when the key is
\* gone) and spawnFirmwareInterface shows the view.
UpdateFirmwareBySerial_Spawn ==
    /\ owner_pc = "updateFirmwareBySerial"
    /\ IF serial_port \notin DOMAIN usb_output_devices
       THEN /\ OwnerReturns
            /\ effects' = << <<"updateFirmwareBySerial", serial_port>>,
                             <<"raise", "KeyError">> >>
            /\ UNCHANGED firmware_view
       ELSE /\ firmware_view' = SpawnFirmwareInterface(firmware_view)
            /\ owner_pc' = "updateFirmwareBySerial_try"
            /\ effects' = << <<"updateFirmwareBySerial", serial_port>>,
                             <<"spawnFirmwareInterface">> >>
            /\ UNCHANGED <<serial_port, o_iter_used, o_iter_seen>>
    /\ UNCHANGED <<serial_port_list, usb_output_devices, check_updates,
                   deviceVars, workerVars, o_progress, o_device, queue,
                   output_devices, ghostVars>>
    /\ UNCHANGED appVars

\* The try statement: the device is looked up again (KeyError when the key
\* is gone; only FileNotFoundError is caught), the firmware name is resolved
\* and the file looked for, and the device's updateFirmware is called.
UpdateFirmwareBySerial_Try ==
    /\ owner_pc = "updateFirmwareBySerial_try"
    /\ IF serial_port \notin DOMAIN usb_output_devices
       THEN /\ effects' = << <<"updateFirmwareBySerial", serial_port>>,
                             <<"raise", "KeyError">> >>
            /\ UNCHANGED firmware_view
       ELSE \E absent \in SUBSET {serial_port} :
              LET resolved == ResolveFor(active_machine)
                  d == usb_output_devices[serial_port]
                  raises == RaisesFileNotFound(resolved, absent, serial_port)
                  try == TryUpdateFirmware(firmware_view, raises)
              IN /\ firmware_view' = try.view
                 /\ effects' = << <<"updateFirmwareBySerial", serial_port>>,
                                  <<"_getDefaultFirmwareName", resolved[1]>>,
                                  IF raises THEN <<"FileNotFoundError", d>>
                                            ELSE <<"updateFirmware", d>>,
                                  <<"return", try.ret>> >>
    /\ OwnerReturns
    /\ UNCHANGED <<serial_port_list, usb_output_devices, check_updates,
                   deviceVars, workerVars, o_progress, o_device, queue,
                   output_devices, ghostVars>>
    /\ UNCHANGED appVars

\* device.setProgress(progress) in the owner context, for a device that
\* exists.
ProgressValues == {0, 100}

ReportProgress(d, progress) ==
    /\ owner_pc = "idle"
    /\ d \in 1..num_devices
    /\ device[d].alive
    /\ LET r == CallSetProgress(device, d, <<progress>>)
       IN /\ device' = r.devs
          /\ effects' = r.fx
    /\ UNCHANGED <<managerVars, num_devices, workerVars, ownerVars, queue,
                   output_devices, ghostVars>>
    /\ UNCHANGED appVars

(***************************************************************************)
(* PrinterOutputDevice: the operations of a device, called on a device     *)
(* that no manager is subscribed to.                                       *)
(***************************************************************************)
\* What the device operations leave alone.
notDeviceVars ==
    <<serial_port_list, usb_output_devices, check_updates, firmware_view,
      appVars, num_devices, workerVars, ownerVars, queue,
      output_devices, ghostVars>>

\* setConnectionState(connection_state): any state of the enum is accepted.
DeviceSetConnectionState(d, state) ==
    /\ d \in 1..num_devices
    /\ device' = WithConnectionState(device, d, state)
    /\ effects' = << <<"setConnectionState", d, state>>,
                     <<"connectionStateChanged", device[d].id>> >>
    /\ UNCHANGED notDeviceVars

\* The head coordinates the operations are called with.
MaxCoordinate == 1
Coordinates == 0..MaxCoordinate

\* _updateHeadPosition(x, y, z): each axis that differs is stored and sets
\* position_changed; one notification is emitted when the flag is set.
\* (The variant emits one notification for each axis that differs.)
UpdateHeadPosition_EmitsPerAxis(dev, x, y, z) ==
    [dev |-> [dev EXCEPT !.head_x = x, !.head_y = y, !.head_z = z],
     fx  |-> (IF dev.head_x # x THEN << <<"headPositionChanged">> >> ELSE <<>>)
             \o (IF dev.head_y # y THEN << <<"headPositionChanged">> >> ELSE <<>>)
             \o (IF dev.head_z # z THEN << <<"headPositionChanged">> >> ELSE <<>>)]

UpdateHeadPosition(dev, x, y, z) ==
    LET dev1 == IF dev.head_x # x THEN [dev EXCEPT !.head_x = x] ELSE dev
        changed1 == dev.head_x # x
        dev2 == IF dev1.head_y # y THEN [dev1 EXCEPT !.head_y = y] ELSE dev1
        changed2 == changed1 \/ dev1.head_y # y
        dev3 == IF dev2.head_z # z THEN [dev2 EXCEPT !.head_z = z] ELSE dev2
        position_changed == changed2 \/ dev2.head_z # z
    IN [dev |-> dev3,
        fx  |-> IF position_changed THEN << <<"headPositionChanged">> >>
                                    ELSE <<>>]

DeviceUpdateHeadPosition(d, x, y, z) ==
    /\ d \in 1..num_devices
    /\ LET r == UpdateHeadPosition(device[d], x, y, z)
       IN /\ device' = [device EXCEPT ![d] = r.dev]
          /\ effects' = << <<"_updateHeadPosition", d, x, y, z>> >> \o r.fx
    /\ UNCHANGED notDeviceVars

\* The speeds the head operations are called with (3000 is the default).
Speeds == {1500, 3000}

\* setHeadPosition, setHeadX, setHeadY, setHeadZ: the hook each one calls,
\* with the arguments it passes.
SetHeadPosition(x, y, z, speed) == <<"_setHeadPosition", x, y, z, speed>>
SetHeadX(x, speed) == <<"_setHeadX", x, speed>>
SetHeadY(y, speed) == <<"_setHeadY", y, speed>>
SetHeadZ(z, speed) == <<"_setHeadY", z, speed>>

\* A call of one of the four on the device; the hooks of the base class only
\* log.
DeviceSetHeadPosition(d, x, y, z, speed) ==
    /\ d \in 1..num_devices
    /\ effects' = << <<"setHeadPosition", x, y, z, speed>>,
                     SetHeadPosition(x, y, z, speed) >>
    /\ UNCHANGED <<device, notDeviceVars>>

DeviceSetHeadAxis(d, axis, v, speed) ==
    /\ d \in 1..num_devices
    /\ effects' = << <<"setHead" \o axis, v, speed>>,
                     CASE axis = "X" -> SetHeadX(v, speed)
                       [] axis = "Y" -> SetHeadY(v, speed)
                       [] axis = "Z" -> SetHeadZ(v, speed) >>
    /\ UNCHANGED <<device, notDeviceVars>>

\* The hotend indices and temperatures the operations are called with:
\* indices in range, negative ones, and ones out of range on either side.
Indices == (0 - NumExtruders - 1)..NumExtruders
Temperatures == {0, 210}

\* "list[index] = value" of Python: an index from -len to len - 1 is stored
\* to (a negative one counts from the end), any other raises IndexError and
\* leaves the list as it is.  (The variant grows the list for an index past
\* its end.)
ListStore_Grows(list, index, value) ==
    IF index >= Len(list)
    THEN [list |-> Append(list, value), raised |-> FALSE]
    ELSE IF index >= 0
    THEN [list |-> [list EXCEPT ![index + 1] = value], raised |-> FALSE]
    ELSE IF index >= 0 - Len(list)
    THEN [list |-> [list EXCEPT ![Len(list) + index + 1] = value],
          raised |-> FALSE]
    ELSE [list |-> list, raised |-> TRUE]

ListStore(list, index, value) ==
    IF index >= 0 /\ index < Len(list)
    THEN [list |-> [list EXCEPT ![index + 1] = value], raised |-> FALSE]
    ELSE IF index < 0 /\ index >= 0 - Len(list)
    THEN [list |-> [list EXCEPT ![Len(list) + index + 1] = value],
          raised |-> FALSE]
    ELSE [list |-> list, raised |-> TRUE]

\* setTargetHotendTemperature(index, temperature): the hook, the store, the
\* notification; an IndexError of the store leaves the call before the
\* notification.
DeviceSetTargetHotendTemperature(d, index, temperature) ==
    /\ d \in 1..num_devices
    /\ LET r == ListStore(device[d].target_hotend_temperatures, index,
                          temperature)
       IN /\ device' = [device EXCEPT ![d].target_hotend_temperatures = r.list]
          /\ effects' = << <<"setTargetHotendTemperature", index, temperature>>,
                           <<"_setTargetHotendTemperature", index, temperature>>,
                           IF r.raised
                           THEN <<"raise", "IndexError">>
                           ELSE <<"targetHotendTemperaturesChanged">> >>
    /\ UNCHANGED notDeviceVars

\* _setHotendTemperature(index, temperature)
DeviceSetHotendTemperature(d, index, temperature) ==
    /\ d \in 1..num_devices
    /\ LET r == ListStore(device[d].hotend_temperatures, index, temperature)
       IN /\ device' = [device EXCEPT ![d].hotend_temperatures = r.list]
          /\ effects' = << <<"_setHotendTemperature", index, temperature>>,
                           IF r.raised
                           THEN <<"raise", "IndexError">>
                           ELSE <<"hotendTemperaturesChanged">> >>
    /\ UNCHANGED notDeviceVars

\* setProgress(progress) on the device.
DeviceSetProgress(d, progress) ==
    /\ d \in 1..num_devices
    /\ LET r == SetProgress(device, d, progress)
       IN /\ device' = r.devs
          /\ effects' = << <<"setProgress", d, progress>> >> \o r.fx
    /\ UNCHANGED notDeviceVars

(***************************************************************************)
(* Specifications.                                                         *)
(*                                                                         *)
(* Spec: discovery.  The worker and the owner context run concurrently,    *)
(* the owner handling the events posted to it, the devices' state reports, *)
(* start() and stop().                                                     *)
(***************************************************************************)
\* The steps of the discovery worker thread, the destruction of a device in
\* it (or in another thread that is not the owner's) among them.
WorkerNext ==
    \/ UpdateThreadLoop
    \/ UpdateThreadScan
    \/ AddRemovePorts_HandOff
    \/ AddRemovePorts_BeginRemoval
    \/ AddRemovePorts_Iterate
    \/ AddRemovePorts_Close
    \/ AddRemovePorts_Delete
    \/ UpdateThreadSleep
    \/ \E d \in DeviceIds : Del(d, FALSE)

Next ==
    \/ WorkerNext
    \/ Start
    \/ Stop
    \/ StopJoined
    \/ AddOutputDevice_Connect
    \/ AddOutputDevice_Connected
    \/ AddOutputDevice_Store
    \/ OnConnectionStateChanged_Queued
    \/ \E d \in DeviceIds, state \in ReportedStates :
          SetConnectionState_Store(d, state)
    \/ SetConnectionState_Emit
    \/ \E d \in DeviceIds : Del(d, TRUE)

Spec == Init /\ [][Next]_vars

(***************************************************************************)
(* The manager's operations on the tracked devices, each run in the owner  *)
(* context while discovery adds and removes the devices.                   *)
(***************************************************************************)
\* Discovery: the worker, start(), the handlers of the events posted to the
\* owner context and the destruction of the devices nothing refers to.
DiscoveryNext ==
    \/ WorkerNext
    \/ Start
    \/ AddOutputDevice_Connect
    \/ AddOutputDevice_Connected
    \/ AddOutputDevice_Store
    \/ OnConnectionStateChanged_Queued
    \/ \E d \in DeviceIds : Del(d, TRUE)

\* DiscoverySpec: discovery alone.
DiscoverySpec == Init /\ [][DiscoveryNext]_vars

\* ListSpec: reads of connectedPrinterList, which keeps the devices it lists
\* alive until it is read again.
ListNext ==
    \/ DiscoveryNext
    \/ ConnectedPrinterList_Begin
    \/ ConnectedPrinterList_Next
    \/ ConnectedPrinterList_If

ListSpec == Init /\ [][ListNext]_vars

\* ProgressSpec: reads of progress and the devices' reports of progress.
ProgressNext ==
    \/ DiscoveryNext
    \/ \E d \in DeviceIds, progress \in ProgressValues :
          ReportProgress(d, progress)
    \/ ReadProgress_Begin
    \/ ReadProgress_Iterate
    \/ ReadProgress_Return

ProgressSpec == Init /\ [][ProgressNext]_vars

ApiInit == ManagerInit /\ active_machine \in ActiveProfiles

\* UpdateAllSpec: updateAllFirmware, with a machine that has a firmware and
\* one that has none.
UpdateAllNext ==
    \/ DiscoveryNext
    \/ UpdateAllFirmware_Begin
    \/ UpdateAllFirmware_For
    \/ UpdateAllFirmware_Next
    \/ UpdateAllFirmware_Try
    \/ UpdateAllFirmware_Except

UpdateAllSpec == ApiInit /\ [][UpdateAllNext]_vars

\* BySerialSpec: updateFirmwareBySerial, with a machine that has a firmware
\* and one that has none.
BySerialNext ==
    \/ DiscoveryNext
    \/ \E port \in Ports : UpdateFirmwareBySerial_Begin(port)
    \/ UpdateFirmwareBySerial_Spawn
    \/ UpdateFirmwareBySerial_Try

BySerialSpec == ApiInit /\ [][BySerialNext]_vars

(***************************************************************************)
(* StopSpec: discovery with start() and stop(), under the scheduling the   *)
(* threads have: the worker thread, while it can take a step, eventually   *)
(* takes it (its steps never wait for the owner context), and join()       *)
(* returns once the worker thread has ended.                               *)
(***************************************************************************)
StopNext ==
    \/ WorkerNext
    \/ Start
    \/ Stop
    \/ StopJoined
    \/ AddOutputDevice_Connect
    \/ AddOutputDevice_Connected
    \/ AddOutputDevice_Store
    \/ OnConnectionStateChanged_Queued
    \/ \E d \in DeviceIds : Del(d, TRUE)

StopSpec ==
    Init /\ [][StopNext]_vars /\ WF_vars(WorkerNext) /\ WF_vars(StopJoined)

(***************************************************************************)
(* DeviceSpec: one PrinterOutputDevice and the operations called on it.    *)
(***************************************************************************)
DeviceInit ==
    /\ serial_port_list = <<>>
    /\ usb_output_devices = EmptyDict
    /\ check_updates = TRUE
    /\ firmware_view = "none"
    /\ usb_output_devices_model = <<>>
    /\ active_machine = DefaultMachine
    /\ device = [d \in DeviceIds |-> IF d = 1 THEN NewDevice("p1") ELSE NoDevice]
    /\ num_devices = 1
    /\ w_pc = "new"
    /\ result = <<>>
    /\ devices_to_remove = <<>>
    /\ w_i = 0
    /\ iter_seen = {}
    /\ iter_used = 0
    /\ w_port = ""
    /\ w_device = 0
    /\ owner_pc = "idle"
    /\ serial_port = ""
    /\ o_iter_used = 0
    /\ o_iter_seen = {}
    /\ o_progress = 0
    /\ o_device = 0
    /\ queue = <<>>
    /\ output_devices = EmptyDict
    /\ effects = <<>>
    /\ vanished = {}
    /\ stale = {}
    /\ overlapped = FALSE

DeviceNext ==
    \/ \E d \in DeviceIds, state \in ConnectionState :
          DeviceSetConnectionState(d, state)
    \/ \E d \in DeviceIds, progress \in ProgressValues :
          DeviceSetProgress(d, progress)
    \/ \E d \in DeviceIds, x, y, z \in Coordinates :
          DeviceUpdateHeadPosition(d, x, y, z)
    \/ \E d \in DeviceIds, x, y, z \in Coordinates, speed \in Speeds :
          DeviceSetHeadPosition(d, x, y, z, speed)
    \/ \E d \in DeviceIds, axis \in {"X", "Y", "Z"}, v \in Coordinates,
          speed \in Speeds :
          DeviceSetHeadAxis(d, axis, v, speed)
    \/ \E d \in DeviceIds, index \in Indices, temperature \in Temperatures :
          DeviceSetTargetHotendTemperature(d, index, temperature)
    \/ \E d \in DeviceIds, index \in Indices, temperature \in Temperatures :
          DeviceSetHotendTemperature(d, index, temperature)

DeviceSpec == DeviceInit /\ [][DeviceNext]_vars

(***************************************************************************)
(* ScanSpec: discovery on each platform, without stop() and without state  *)
(* reports of the devices.                                                 *)
(***************************************************************************)
ScanInit ==
    /\ ManagerInit
    /\ active_machine \in {[DefaultMachine EXCEPT !.platform = pl] :
                               pl \in Platforms}

ScanNext ==
    \/ WorkerNext
    \/ Start
    \/ AddOutputDevice_Connect
    \/ AddOutputDevice_Connected
    \/ AddOutputDevice_Store
    \/ OnConnectionStateChanged_Queued
    \/ \E d \in DeviceIds : Del(d, TRUE)

ScanSpec == ScanInit /\ [][ScanNext]_vars

(***************************************************************************)
(* FirmwareSpec: _getDefaultFirmwareName applied to every machine id,      *)
(* heated-bed setting and platform.                                        *)
(***************************************************************************)
FirmwareInit == ManagerInit /\ active_machine \in MachineProfiles

FirmwareNext == ResolveFirmware

FirmwareSpec == FirmwareInit /\ [][FirmwareNext]_vars

(***************************************************************************)
(* Properties.                                                             *)
(***************************************************************************)
\* The step is one of the discovery worker's.
WorkerStep == WorkerNext

\* The latest step did e.
Did(e) == \E i \in DOMAIN effects : effects[i] = e

\* Device d is published in the registry.
Published(d) ==
    \E p \in DOMAIN output_devices : output_devices[p] = d

\* C1: when a discovery cycle has completed, that is _addRemovePorts has
\* returned and every addOutputDevice it handed off has run, the keys of
\* _usb_output_devices are exactly the ports of the latest scan, provided
\* that every cycle so far began with the hand-offs of the cycles before it
\* processed.
C1_KeysAreLatestScan ==
    (w_pc = "sleep" /\ HandOffsProcessed /\ ~overlapped)
        => DOMAIN usb_output_devices = Range(serial_port_list)

\* C1, witness: a completed cycle that removed a device for a vanished port
\* and leaves another port tracked.
C1_Witness ==
    /\ w_pc = "sleep"
    /\ HandOffsProcessed
    /\ ~overlapped
    /\ devices_to_remove # <<>>
    /\ DOMAIN usb_output_devices # {}

\* C2: a repeated report of the state a tracked device is already in makes no
\* second registry call: when setConnectionState has stored the state the
\* device already had, its notification causes no addOutputDevice for a
\* device that is connected and published, and no removeOutputDevice for one
\* that is not connected and not published.
C2_NoRepeatedRegistryCall ==
    [][(/\ owner_pc = "setConnectionState"
        /\ owner_pc' = "idle"
        /\ Len(effects) = 1
        /\ effects[1][1] = "_connection_state"
        /\ effects[1][3] = effects[1][4])
          => IF effects[1][4] = connected
             THEN Published(o_device) => Len(effects') = 1
             ELSE ~Published(o_device) => Len(effects') = 1]_vars

\* C3: once a cycle has removed the device of a vanished port and the
\* notifications posted to the owner context have been delivered, the
\* registry holds no closed device under that port that is not tracked.
C3_RemovedDeviceUnpublished ==
    (w_pc = "sleep" /\ queue = <<>> /\ owner_pc = "idle")
        => \A p \in Range(devices_to_remove) :
              (/\ p \in DOMAIN output_devices
               /\ device[output_devices[p]].connection_state = closed)
                 => /\ p \in DOMAIN usb_output_devices
                    /\ usb_output_devices[p] = output_devices[p]

\* C4: a tracked device that is connected is published in the registry, also
\* when it reported "connected" within the connect() call of addOutputDevice.
C4_ConnectedDevicePublished ==
    owner_pc = "idle"
        => \A p \in DOMAIN usb_output_devices :
              device[usb_output_devices[p]].connection_state = connected
                 => /\ p \in DOMAIN output_devices
                    /\ output_devices[p] = usb_output_devices[p]

\* C5: when the cycle of a scan that lacks a port of the scan before it has
\* completed and the hand-offs have been processed, that port was removed
\* exactly once by the cycle (each removal follows one close() of the device
\* tracked under the port).
C5_VanishedPortRemovedOnce ==
    (w_pc = "sleep" /\ HandOffsProcessed)
        => \A p \in vanished :
              Cardinality({i \in DOMAIN devices_to_remove :
                             devices_to_remove[i] = p}) = 1

\* C6: no step of the discovery worker writes _serial_port_list or
\* _usb_output_devices, or changes a device.
C6_WorkerWritesNothing ==
    [][WorkerStep => UNCHANGED <<serial_port_list, usb_output_devices, device>>]_vars

\* C7: a device that is tracked under a port outside _serial_port_list when a
\* cycle begins is no longer tracked when that cycle has completed (the
\* cycle closed and removed it).
C7_StaleDeviceRemovedByNextCycle ==
    w_pc = "sleep" => \A d \in stale : d \notin Range(usb_output_devices)

\* C8: reading progress with no tracked device returns 0 and raises nothing.
C8_ProgressOfNoDevicesIsZero ==
    (Len(effects) = 2 /\ effects[1] = <<"progress">>
        /\ DOMAIN usb_output_devices = {})
        => effects[2][1] = "return" /\ effects[2][2] = 0

\* C9: when updateAllFirmware has handled the missing-file fault of one
\* device, that device's progress is 100, no fault has left updateAllFirmware
\* and the batch goes on with the next device.
C9_BatchContinuesAfterFailure ==
    (/\ Len(effects) >= 2
     /\ effects[1] = <<"updateAllFirmware">>
     /\ effects[2][1] = "except")
        => /\ device[effects[2][2]].progress = 100
           /\ ~Did(<<"raise", "TypeError">>)
           /\ owner_pc = "updateAllFirmware_next"

\* C10: when, inside updateAllFirmware with a tracked device, the active
\* machine turned out to have no firmware, the batch has ended and a message
\* was shown to the user.
C10_NoFirmwareIsBatchFailure ==
    (/\ effects # <<>>
     /\ effects[1] = <<"updateAllFirmware">>
     /\ Did(<<"_getDefaultFirmwareName", "raise">>))
        => /\ owner_pc = "idle"
           /\ \E i \in DOMAIN effects : effects[i][1] = "Message"

\* C11: in updateFirmwareBySerial(port), when the firmware is missing (the
\* resolution of its name fails or the file is not found), the
\* device's updateFirmware is not called, the view is closed and False is
\* returned; when it is found, updateFirmware is called and True is
\* returned; and for a port that is not tracked False is returned at once,
\* with the view left as it was and no resolution attempted.
C11_BySerialOutcome ==
    [][(effects' # <<>> /\ effects'[1][1] = "updateFirmwareBySerial")
         => LET returns(v) == \E i \in DOMAIN effects' :
                                 effects'[i] = <<"return", v>>
                did(e) == \E i \in DOMAIN effects' : effects'[i][1] = e
            IN /\ (\E i \in DOMAIN effects' :
                      effects'[i] = <<"_getDefaultFirmwareName", "raise">>)
                   => did("FileNotFoundError")
               /\ did("FileNotFoundError")
                   => /\ ~did("updateFirmware")
                      /\ firmware_view' = "closed"
                      /\ returns(FALSE)
                      /\ owner_pc' = "idle"
               /\ did("updateFirmware") => returns(TRUE) /\ owner_pc' = "idle"
               /\ returns(TRUE) => did("updateFirmware")
               /\ returns(FALSE) /\ ~did("FileNotFoundError")
                   => /\ effects'[1][2] \notin DOMAIN usb_output_devices
                      /\ owner_pc = "idle"
                      /\ UNCHANGED firmware_view
                      /\ ~did("_getDefaultFirmwareName")
               /\ (owner_pc = "idle"
                     /\ effects'[1][2] \notin DOMAIN usb_output_devices)
                   => returns(FALSE) /\ owner_pc' = "idle"]_vars

\* C11, witness: a call for a tracked port, made with a machine that has no
\* firmware, found the resolution failing while the view had been shown.
C11_Witness ==
    /\ effects # <<>>
    /\ effects[1][1] = "updateFirmwareBySerial"
    /\ Did(<<"_getDefaultFirmwareName", "raise">>)
    /\ \E d \in DeviceIds : Did(<<"FileNotFoundError", d>>)
    /\ Did(<<"return", FALSE>>)
    /\ firmware_view = "closed"

\* C12: a call of updateAllFirmware with no tracked device shows the "no
\* printers" message, resolves no firmware name, does not open the firmware
\* view and changes no state of the manager or of a device.
C12_NoPrintersDoesNothingElse ==
    [][(/\ DOMAIN usb_output_devices = {}
        /\ owner_pc = "idle"
        /\ effects' # <<>>
        /\ effects'[1][1] = "updateAllFirmware")
          => /\ effects' = << <<"updateAllFirmware">>,
                              <<"Message", "no printers">> >>
             /\ UNCHANGED <<managerVars, deviceVars, queue, output_devices>>]_vars

\* C12, witness: updateAllFirmware has shown the message on a manager that
\* tracks nothing after it had constructed a device.
C12_Witness ==
    /\ Did(<<"Message", "no printers">>)
    /\ DOMAIN usb_output_devices = {}
    /\ num_devices > 0

\* C13: _getDefaultFirmwareName, for a machine id of the base table, returns
\* the heated-bed image when the id is also in the heated-bed table and the
\* machine_heated_bed setting is on, and the base image otherwise; for
\* "ultimaker_original" these are MarlinUltimaker-HBK-<baud>.hex and
\* MarlinUltimaker-<baud>.hex, <baud> being 115200 on Linux and 250000
\* elsewhere.
C13_FirmwareResolution ==
    (Len(effects) = 2 /\ effects[1] = <<"_getDefaultFirmwareName">>)
       => LET m == active_machine.machine_type
              hb == active_machine.heated_bed
              baud == IF active_machine.platform = "Linux" THEN "115200"
                                                           ELSE "250000"
              override == m \in DOMAIN machine_with_heated_bed /\ hb
          IN /\ m \in DOMAIN machine_without_extras
                  => /\ effects[2][1] = "return"
                     /\ override =>
                          effects[2][2] =
                            Join([i \in 1..3 |->
                                   IF i = 2 THEN baud
                                   ELSE machine_with_heated_bed[m][i]])
                     /\ ~override =>
                          effects[2][2] =
                            Join([i \in DOMAIN machine_without_extras[m] |->
                                   IF i = 2 THEN baud
                                   ELSE machine_without_extras[m][i]])
             /\ m = "ultimaker_original"
                  => effects[2] =
                       <<"return",
                         IF hb THEN "MarlinUltimaker-HBK-" \o baud \o ".hex"
                               ELSE "MarlinUltimaker-" \o baud \o ".hex">>

\* C13, witness: the heated-bed image was resolved on a platform other than
\* Linux.
C13_Witness ==
    /\ active_machine.machine_type = "ultimaker_original"
    /\ active_machine.heated_bed
    /\ active_machine.platform = "Windows"
    /\ Len(effects) = 2
    /\ effects[2] = <<"return", "MarlinUltimaker-HBK-250000.hex">>

\* C14: a step that clears _check_updates while the worker thread was never
\* started is a stop() that returns without raising, with the owner context
\* not left waiting, and changes neither _usb_output_devices nor
\* _serial_port_list nor a device.
C14_StopWithoutStart ==
    [][(w_pc = "new" /\ ~check_updates')
          => /\ effects' = << <<"stop", "return">> >>
             /\ owner_pc' = "idle"
             /\ w_pc' = "new"
             /\ UNCHANGED <<serial_port_list, usb_output_devices, deviceVars,
                            output_devices, queue>>]_vars

\* C14, witness: stop() has returned on a manager that was never started.
C14_Witness ==
    /\ w_pc = "new"
    /\ ~check_updates
    /\ owner_pc = "idle"
    /\ Did(<<"stop", "return">>)

\* C15: a loop test made while _check_updates is cleared begins no scan, and
\* a stop() that waits in join() leads to the worker thread having ended and
\* stop() having returned.
C15_StopTerminatesWorker ==
    /\ [][(~check_updates /\ w_pc = "check")
            => w_pc' # "getSerialPortList"]_vars
    /\ (owner_pc = "joining") ~> (owner_pc = "idle" /\ w_pc \in {"done", "fault"})

\* C15, witness: stop() has returned after the worker, which had tracked a
\* device, left its loop.
C15_Witness ==
    /\ Did(<<"stop", "return">>)
    /\ w_pc = "done"
    /\ ~check_updates
    /\ num_devices > 0

\* C16: a device's connection state changes only along closed->connecting,
\* connecting->connected, connected->busy, busy->connected, busy->error and
\* any state->closed.
C16_OnlyAllowedTransitions ==
    [][\A d \in DeviceIds :
         device'[d].connection_state # device[d].connection_state
            => \/ device'[d].connection_state = closed
               \/ <<device[d].connection_state, device'[d].connection_state>>
                     \in {<<closed, connecting>>, <<connecting, connected>>,
                          <<connected, busy>>, <<busy, connected>>,
                          <<busy, error>>}]_vars

\* C17: a call setProgress(p) emits progressChanged exactly when p differs
\* from the stored progress, and stores p; a call with the stored value
\* changes nothing of the device.
C17_SetProgressDedupes ==
    [][\A d \in DeviceIds, p \in ProgressValues :
         (effects' # <<>> /\ effects'[1] = <<"setProgress", d, p>>)
            => /\ device'[d].progress = p
               /\ (\E i \in DOMAIN effects' : effects'[i] = <<"progressChanged", d>>)
                     <=> device[d].progress # p
               /\ device[d].progress = p => device' = device
               /\ Len(effects') <= 2]_vars

\* C17, witness: setProgress was called a second time with the value the
\* first call had stored, and emitted nothing.
C17_Witness ==
    /\ effects = << <<"setProgress", 1, 100>> >>
    /\ device[1].progress = 100

\* C18: a call _updateHeadPosition(x, y, z) emits headPositionChanged once
\* when an axis differs from the stored position and not at all when none
\* does, and the stored position is (x, y, z) afterwards.
C18_OneHeadNotification ==
    [][(effects' # <<>> /\ effects'[1][1] = "_updateHeadPosition")
            => LET d == effects'[1][2]
                   x == effects'[1][3]
                   y == effects'[1][4]
                   z == effects'[1][5]
                   differs == \/ device[d].head_x # x
                              \/ device[d].head_y # y
                              \/ device[d].head_z # z
               IN /\ effects' = << <<"_updateHeadPosition", d, x, y, z>> >>
                                 \o (IF differs
                                     THEN << <<"headPositionChanged">> >>
                                     ELSE <<>>)
                  /\ <<device'[d].head_x, device'[d].head_y, device'[d].head_z>>
                        = <<x, y, z>>]_vars

\* C18, witness: a call in which all three axes differed emitted one
\* notification.
C18_Witness ==
    /\ effects = << <<"_updateHeadPosition", 1, 1, 1, 1>>,
                    <<"headPositionChanged">> >>
    /\ device[1].head_x = 1 /\ device[1].head_y = 1 /\ device[1].head_z = 1

\* C19: setHeadPosition calls _setHeadPosition, setHeadX calls _setHeadX,
\* setHeadY calls _setHeadY and setHeadZ calls _setHeadZ, each with the
\* arguments of the call, once, and nothing else.
C19_EachOperationItsOwnHook ==
    (effects # <<>>
       /\ effects[1][1] \in {"setHeadPosition", "setHeadX", "setHeadY", "setHeadZ"})
       => /\ Len(effects) = 2
          /\ effects[2][1] = "_" \o effects[1][1]
          /\ Tail(effects[2]) = Tail(effects[1])

\* C20: a cycle posts one construction request for each port of its scan
\* that is not in _serial_port_list and none for any other port, and then
\* replaces _serial_port_list by the scan; and the ports a cycle removes are
\* not ports of its scan, so no port is both handed off and removed by one
\* cycle.
C20_OneHandOffPerNewPort ==
    /\ [][w_pc = "addRemovePorts"
            => /\ w_i' = w_i + 1
                  => queue' = IF result[w_i'] \notin Range(serial_port_list)
                              THEN Append(queue, <<"add", result[w_i']>>)
                              ELSE queue
               /\ w_pc' = "removal"
                  => /\ w_i = Len(result)
                     /\ serial_port_list' = result
                     /\ Len(queue') <= Len(queue)]_vars
    /\ [](w_pc = "addRemovePorts"
            => \A i, j \in DOMAIN result : i # j => result[i] # result[j])
    /\ [](w_pc \in {"iterate", "close", "delete", "sleep"}
            => Range(devices_to_remove) \cap Range(serial_port_list) = {})

\* C20, witness: a cycle has handed off one new port while its scan also
\* holds a port that was known and is tracked.
C20_Witness ==
    /\ w_pc = "iterate"
    /\ Len(serial_port_list) = 2
    /\ Cardinality(PendingAdds) = 1
    /\ \E p \in DOMAIN usb_output_devices :
          /\ p \in Range(serial_port_list)
          /\ \A i \in PendingAdds : queue[i][2] # p

\* C21: both hotend arrays of a device always have the length _num_extruders;
\* a setTargetHotendTemperature or _setHotendTemperature call with an index
\* outside the list is rejected, and a rejected call changes no device and
\* emits no notification.
C21_HotendArraysKeepLength ==
    /\ [](\A d \in DeviceIds :
            /\ Len(device[d].hotend_temperatures) = NumExtruders
            /\ Len(device[d].target_hotend_temperatures) = NumExtruders)
    /\ [][(/\ effects' # <<>>
           /\ effects'[1][1] \in {"setTargetHotendTemperature",
                                   "_setHotendTemperature"})
            => LET rejected == effects'[Len(effects')] = <<"raise", "IndexError">>
                   index == effects'[1][2]
               IN /\ (index >= NumExtruders \/ index < 0 - NumExtruders)
                       => rejected
                  /\ rejected
                       => /\ device' = device
                          /\ \A i \in DOMAIN effects' :
                                effects'[i][1] \notin
                                  {"targetHotendTemperaturesChanged",
                                   "hotendTemperaturesChanged"}]_vars

\* C21, witness: a call with an index past the end was rejected on a device
\* whose arrays had been written before.
C21_Witness ==
    /\ effects # <<>>
    /\ effects[1] = <<"setTargetHotendTemperature", NumExtruders, 210>>
    /\ effects[Len(effects)] = <<"raise", "IndexError">>
    /\ device[1].hotend_temperatures[1] = 210
    /\ device[1].target_hotend_temperatures[1] = 210

\* C22: when the enumeration of the ports faulted before the system's ports
\* were all listed, getSerialPortList has returned the empty list and the
\* worker goes on with the cycle.
C22_EnumerationFaultGivesNoPorts ==
    (/\ effects # <<>>
     /\ effects[1][1] = "getSerialPortList"
     /\ effects[1][3] < Len(effects[1][2]))
        => /\ result = <<>>
           /\ w_pc = "addRemovePorts"

\* C23: while the flag of the loop is set the worker is never ended by a
\* fault of a cycle of _addRemovePorts, however the owner's addOutputDevice
\* interleaves with the pass that removes devices.
C23_NoCycleFaults == check_updates => w_pc # "fault"

\* C24: no step replaces the device that is tracked for a port with another
\* device while the tracked one has not been closed.
C24_NoReplacementOfOpenDevice ==
    [][\A p \in DOMAIN usb_output_devices :
          (/\ p \in DOMAIN usb_output_devices'
           /\ usb_output_devices'[p] # usb_output_devices[p])
             => device[usb_output_devices[p]].connection_state = closed]_vars

TypeOK ==
    /\ serial_port_list \in PortLists
    /\ DOMAIN usb_output_devices \subseteq Ports
    /\ \A p \in DOMAIN usb_output_devices : usb_output_devices[p] \in 1..num_devices
    /\ num_devices \in 0..MaxDevices
    /\ w_pc \in {"new", "check", "getSerialPortList", "addRemovePorts",
                 "removal", "iterate", "close", "delete", "sleep", "done",
                 "fault"}
    /\ owner_pc \in {"idle", "connecting", "adding", "setConnectionState",
                     "joining", "progress", "progress_return",
                     "connectedPrinterList", "connectedPrinterList_if",
                     "updateAllFirmware", "updateAllFirmware_next",
                     "updateAllFirmware_try", "updateAllFirmware_except",
                     "updateFirmwareBySerial", "updateFirmwareBySerial_try"}
    /\ o_iter_used \in 0..MaxDevices
    /\ o_iter_seen \subseteq Ports
    /\ w_device \in 0..num_devices
    /\ w_port \in Ports \cup {""}
    /\ \A i \in DOMAIN usb_output_devices_model :
          usb_output_devices_model[i].printer \in 1..num_devices
    /\ o_device \in 0..num_devices
    /\ overlapped \in BOOLEAN

====
